---- MODULE Spec2Model ----
(***************************************************************************)
(* DayForge client: the TodoAssistant controller (component state and its  *)
(* async handlers), the API service layer (axios client with the MSAL      *)
(* request interceptor) and the collaborators they talk to (the MSAL       *)
(* account cache, the todo backend).                                       *)
(*                                                                         *)
(* One step of the model is one JavaScript task: a handler runs from its   *)
(* invocation to its first await that needs the outside world, and a       *)
(* continuation runs from the settling of that await to the next one.      *)
(***************************************************************************)
EXTENDS Integers, Sequences, FiniteSets, TLC

\* ---------------------------------------------------------------- bounds
\* API calls issued over a run, the load on mount included
MaxCalls == 3
\* API calls that can be in flight at the same time
MaxOps == 2

\* ------------------------------------------------------------- constants
NULL == "null"
Priorities == {"High", "Medium", "Low"}
\* strings are sequences of characters, a character is its code point; the
\* inputs a user types: nothing, a space and a tab, a space and the letter a
TaskInputs == {<< >>, <<32, 9>>, <<32, 97>>}
\* the accounts in the identity library's cache, in cache order
Accounts == <<"alice", "bob">>
\* the options of the priority select
PriorityInputs == {"High", "Medium", "Low"}
\* schedules the backend can answer with
Schedules ==
  {<< >>,
   <<[time |-> "10:00", task |-> <<99>>, duration |-> "30m"],
     [time |-> "09:00", task |-> <<98>>, duration |-> "1h"]>>}
ErrorKinds == {"network", "auth", "backend"}

MsgLoad == "Failed to load tasks. Please try again."
MsgAdd == "Failed to add task. Please try again."
MsgUpdate == "Failed to update task. Please try again."
MsgDelete == "Failed to delete task. Please try again."
MsgGenerate == "Failed to generate schedule. Please try again."
MsgNoTasks == "Please add some tasks before generating a schedule."

VARIABLES
  todos,          \* useState<Todo[]>
  schedule,       \* useState<ScheduleItem[]>
  loading,        \* useState<boolean>
  error,          \* useState<string | null>
  showSchedule,   \* useState<boolean>
  taskInput,      \* useState<string>
  priorityInput,  \* useState<"High" | "Medium" | "Low">
  mounted,        \* the mount effect has run
  strictMode,     \* React.StrictMode re-runs the effects of a mount (development build)
  accounts,       \* msalInstance.getAllAccounts()
  calls,          \* the API calls in flight, in the order they were started
  store,          \* the backend's tasks
  nextId,         \* the next id the backend assigns
  issued,         \* the number of API calls issued so far
  bypassed,       \* the controller was given an intent while the view had it disabled
  overlapped,     \* the controller started a call while it had another in flight
  toggled,        \* the toggle that resolved last: its id and the status it was given
  sent,           \* the number of HTTP requests sent so far
  failed,         \* an API call of the controller has failed
  last            \* the step taken last: which handler, which call, how it ended

vars == <<todos, schedule, loading, error, showSchedule, taskInput, priorityInput,
          mounted, strictMode, accounts, calls, store, nextId, issued, bypassed,
          overlapped, toggled, sent, failed, last>>

ctrl == <<todos, schedule, loading, error, showSchedule, taskInput, priorityInput>>

\* ---------------------------------------------------------------- helpers
\* the WhiteSpace and LineTerminator code points String.prototype.trim strips:
\* tab, LF, VT, FF, CR, space, NBSP, the other space separators, LS, PS, BOM
WhiteSpace ==
  {9, 10, 11, 12, 13, 32, 160, 5760} \cup (8192..8202) \cup
  {8232, 8233, 8239, 8287, 12288, 65279}

IsSpace(c) == c \in WhiteSpace

RECURSIVE TrimStart(_)
TrimStart(s) ==
  IF s = << >> THEN << >>
  ELSE IF IsSpace(Head(s)) THEN TrimStart(Tail(s)) ELSE s

RECURSIVE TrimEnd(_)
TrimEnd(s) ==
  IF s = << >> THEN << >>
  ELSE IF IsSpace(s[Len(s)]) THEN TrimEnd(SubSeq(s, 1, Len(s) - 1)) ELSE s

\* String.prototype.trim
Trim(s) == TrimEnd(TrimStart(s))

\* Array.prototype.filter with (todo) => todo.id !== id
RECURSIVE FilterOut(_, _)
FilterOut(list, id) ==
  IF list = << >> THEN << >>
  ELSE IF Head(list).id # id THEN <<Head(list)>> \o FilterOut(Tail(list), id)
       ELSE FilterOut(Tail(list), id)

\* Array.prototype.map with (todo) => (todo.id === id ? updatedTodo : todo)
MapReplace(list, id, updatedTodo) ==
  [k \in 1..Len(list) |-> IF list[k].id = id THEN updatedTodo ELSE list[k]]

\* `response.data || []`
OrEmpty(resp) == IF resp.hasData THEN resp.data ELSE << >>

Ids(list) == {list[k].id : k \in 1..Len(list)}

RemoveAt(s, i) == SubSeq(s, 1, i - 1) \o SubSeq(s, i + 1, Len(s))

NoHeader == << >>
NoResp == [hasData |-> FALSE, data |-> << >>]

\* raw is the error as the transport raised it, err the error as the handler
\* caught it
Label(ev, kind, err) == [ev |-> ev, kind |-> kind, err |-> err, raw |-> NULL]

\* the label of a step that is told by what it changes: a step of a call in
\* flight, of the view, of the session
Step == Label("step", "none", NULL)

\* the requests a call has sent
SentBy(call) == IF call.pc = "http" THEN 1 ELSE 0

\* ------------------------------------------------------- API service layer
\* the module-level msalInstance after initializeApi(msalInstance) has run
msalInstance == "PublicClientApplication"

\* the access token acquireTokenSilent resolves with for an account
AccessToken(account) == <<"token", account>>

\* `Bearer ${response.accessToken}`
Bearer(accessToken) == <<"Bearer", accessToken>>

\* the request interceptor up to its await: "noinstance" and "noaccount" are
\* the two throws inside the try, "pending" is acquireTokenSilent awaited
InterceptorBegin(accts) ==
  IF msalInstance = NULL THEN "noinstance"
  ELSE IF Len(accts) = 0 THEN "noaccount"
  ELSE "pending"

\* an interceptor that took the account cached last
TokenAccountLast(accts) == accts[Len(accts)]

\* account: accounts[0]
TokenAccount(accts) == accts[1]

\* an interceptor that rejected the request when no token was acquired
RequestInterceptorAborting(outcome, accessToken) ==
  [returned |-> outcome = "ok",
   header |-> IF outcome = "ok" THEN Bearer(accessToken) ELSE NoHeader]

\* the request interceptor's result for an acquisition outcome: the catch
\* swallows every failure and the config is returned, with the header only
\* when the token was acquired
RequestInterceptor(outcome, accessToken) ==
  [returned |-> TRUE,
   header |-> IF outcome = "ok" THEN Bearer(accessToken) ELSE NoHeader]

\* the call once the interceptor has finished: sent, or rejected before sending
Intercepted(call, outcome, accessToken) ==
  LET cfg == RequestInterceptor(outcome, accessToken)
  IN [call EXCEPT !.pc = IF cfg.returned THEN "http" ELSE "aborted",
                  !.acq = outcome,
                  !.header = cfg.header]

\* the response interceptor's rejection handler: logs, Promise.reject(error)
ResponseInterceptor(err) == err

\* an API function whose catch threw a new error in place of the one caught
ApiCatchWrapped(err) == "Error: request failed"

\* the catch of getTodos/createTodo/updateTodo/deleteTodo/generateSchedule:
\* logs, throw error
ApiCatch(err) == err

\* a client whose request did not wait for the request interceptor
IssueCallUnawaited(kind, snap, id, status, task, priority) ==
  [kind |-> kind, todos |-> snap, id |-> id, status |-> status,
   task |-> task, priority |-> priority,
   pc |-> "http", acq |-> "pending",
   account |-> IF Len(accounts) = 0 THEN NULL ELSE TokenAccount(accounts),
   header |-> NoHeader, resp |-> NoResp, live |-> TRUE]

\* an API function called: the axios request enters the request interceptor
IssueCall(kind, snap, id, status, task, priority) ==
  LET begin == InterceptorBegin(accounts)
      call == [kind |-> kind, todos |-> snap, id |-> id, status |-> status,
               task |-> task, priority |-> priority,
               pc |-> "token", acq |-> "pending",
               account |-> IF Len(accounts) = 0 THEN NULL ELSE TokenAccount(accounts),
               header |-> NoHeader, resp |-> NoResp, live |-> TRUE]
  IN IF begin = "pending" THEN call ELSE Intercepted(call, begin, << >>)

\* acquireTokenSilent resolves for call i: the interceptor attaches the header
\* and returns the config, and the request is sent
AcquireTokenSilentResolves(i) ==
  /\ i \in 1..Len(calls)
  /\ calls[i].pc = "token"
  /\ calls' = [calls EXCEPT ![i] =
                 Intercepted(calls[i], "ok", AccessToken(calls[i].account))]
  /\ sent' = sent + SentBy(calls'[i])
  /\ last' = Step
  /\ UNCHANGED <<ctrl, mounted, strictMode, accounts, store, nextId, issued, bypassed, overlapped, toggled, failed>>

\* acquireTokenSilent rejects for call i: the interceptor's catch logs the
\* error and the config is returned as it is
AcquireTokenSilentRejects(i) ==
  /\ i \in 1..Len(calls)
  /\ calls[i].pc = "token"
  /\ calls' = [calls EXCEPT ![i] = Intercepted(calls[i], "rejected", << >>)]
  /\ sent' = sent + SentBy(calls'[i])
  /\ last' = Step
  /\ UNCHANGED <<ctrl, mounted, strictMode, accounts, store, nextId, issued, bypassed, overlapped, toggled, failed>>

\* ------------------------------------------------------------ the backend
\* POST /todos
CreatedTodo(call) ==
  [id |-> nextId, task |-> call.task, priority |-> call.priority, completed |-> FALSE]

\* PUT /todos/{id} with {completed}
StoredUpdate(call) ==
  LET k == CHOOSE k \in 1..Len(store) : store[k].id = call.id
  IN [store[k] EXCEPT !.completed = ~call.status]

\* the backend serves the request of call i
BackendResponds(i) ==
  /\ i \in 1..Len(calls)
  /\ calls[i].pc = "http"
  /\ LET call == calls[i] IN
     \/ /\ call.kind = "load"
        /\ \E hasData \in (IF store = << >> THEN BOOLEAN ELSE {TRUE}) :
             calls' = [calls EXCEPT ![i].pc = "resp",
                                    ![i].resp = [hasData |-> hasData, data |-> store]]
        /\ UNCHANGED <<store, nextId>>
     \/ /\ call.kind = "add"
        /\ store' = Append(store, CreatedTodo(call))
        /\ nextId' = nextId + 1
        /\ calls' = [calls EXCEPT ![i].pc = "resp",
                                  ![i].resp = [hasData |-> TRUE, data |-> <<CreatedTodo(call)>>]]
     \/ /\ call.kind = "toggle"
        /\ call.id \in Ids(store)
        /\ store' = MapReplace(store, call.id, StoredUpdate(call))
        /\ calls' = [calls EXCEPT ![i].pc = "resp",
                                  ![i].resp = [hasData |-> TRUE, data |-> <<StoredUpdate(call)>>]]
        /\ UNCHANGED nextId
     \/ /\ call.kind = "delete"
        /\ call.id \in Ids(store)
        /\ store' = FilterOut(store, call.id)
        /\ calls' = [calls EXCEPT ![i].pc = "resp"]
        /\ UNCHANGED nextId
     \/ /\ call.kind = "generate"
        /\ \E s \in Schedules, hasData \in BOOLEAN :
             /\ (~hasData => s = << >>)
             /\ calls' = [calls EXCEPT ![i].pc = "resp",
                                       ![i].resp = [hasData |-> hasData, data |-> s]]
        /\ UNCHANGED <<store, nextId>>
  /\ last' = Step
  /\ UNCHANGED <<ctrl, mounted, strictMode, accounts, issued, bypassed, overlapped, toggled, sent, failed>>

\* --------------------------------------------------- TodoAssistant: handlers
\* the calls of the mounted controller that have not settled
InFlight(cs) == Cardinality({i \in 1..Len(cs) : cs[i].live})

\* setLoading(true); setError(null); then the API function is called
BeginCall(kind, snap, id, status, task, priority) ==
  /\ Len(calls) < MaxOps
  /\ issued < MaxCalls
  /\ issued' = issued + 1
  /\ loading' = TRUE
  /\ error' = NULL
  /\ calls' = Append(calls, IssueCall(kind, snap, id, status, task, priority))
  /\ sent' = sent + SentBy(IssueCall(kind, snap, id, status, task, priority))
  /\ overlapped' = (overlapped \/ InFlight(calls) > 0)
  /\ last' = Label("start", kind, NULL)

\* a handler whose message told an authorization failure from the others
FailureMessageByError(kind, err) ==
  IF err = "auth" THEN "Your session has expired. Please sign in again."
  ELSE CASE kind = "load" -> MsgLoad
         [] kind = "add" -> MsgAdd
         [] kind = "toggle" -> MsgUpdate
         [] kind = "delete" -> MsgDelete
         [] kind = "generate" -> MsgGenerate

\* the catch and finally blocks of a handler whose API call threw err
FailureMessage(kind, err) ==
  CASE kind = "load" -> MsgLoad
    [] kind = "add" -> MsgAdd
    [] kind = "toggle" -> MsgUpdate
    [] kind = "delete" -> MsgDelete
    [] kind = "generate" -> MsgGenerate

\* a handler whose setLoading(false) is at the end of its try block instead
\* of a finally block
CallFailsStillLoading(i) ==
  /\ i \in 1..Len(calls)
  /\ calls[i].live
  /\ calls[i].pc \in {"http", "aborted"}
  /\ \E kindOfError \in (IF calls[i].pc = "http" THEN ErrorKinds ELSE {"client"}) :
       LET err == ApiCatch(ResponseInterceptor(kindOfError)) IN
       /\ error' = FailureMessage(calls[i].kind, err)
       /\ last' = [Label("fail", calls[i].kind, err) EXCEPT !.raw = kindOfError]
  /\ calls' = RemoveAt(calls, i)
  /\ failed' = TRUE
  /\ UNCHANGED <<todos, schedule, loading, showSchedule, taskInput, priorityInput,
                 mounted, strictMode, accounts, store, nextId, issued, bypassed, overlapped, toggled, sent>>

\* the request of call i fails (transport error or error response), or was
\* rejected before it was sent; the error passes the response interceptor and
\* the API function's catch and reaches the handler's catch
CallFails(i) ==
  /\ i \in 1..Len(calls)
  /\ calls[i].live
  /\ calls[i].pc \in {"http", "aborted"}
  /\ \E kindOfError \in (IF calls[i].pc = "http" THEN ErrorKinds ELSE {"client"}) :
       LET err == ApiCatch(ResponseInterceptor(kindOfError)) IN
       /\ error' = FailureMessage(calls[i].kind, err)
       /\ last' = [Label("fail", calls[i].kind, err) EXCEPT !.raw = kindOfError]
  /\ loading' = FALSE
  /\ calls' = RemoveAt(calls, i)
  /\ failed' = TRUE
  /\ UNCHANGED <<todos, schedule, showSchedule, taskInput, priorityInput,
                 mounted, strictMode, accounts, store, nextId, issued, bypassed, overlapped, toggled, sent>>

\* root.render(<React.StrictMode>...) with createRoot: a development build
\* runs the effects of a newly mounted component, cleans them up and runs
\* them again before anything else; a production build runs them once
EffectRuns(strict) == IF strict THEN 2 ELSE 1

\* App renders TodoAssistant when useIsAuthenticated() holds, and
\* useEffect(() => { fetchTodos(); }, []), an effect with no cleanup and no
\* guard: fetchTodos up to its await, once for each run of the effect, every
\* run in the first render (todos = [])
fetchTodos ==
  /\ ~mounted
  /\ accounts # << >>
  /\ mounted' = TRUE
  /\ \/ /\ EffectRuns(strictMode) = 1
        /\ BeginCall("load", << >>, 0, FALSE, << >>, NULL)
     \/ /\ EffectRuns(strictMode) = 2
        /\ Len(calls) + 2 <= MaxOps
        /\ issued + 2 <= MaxCalls
        /\ issued' = issued + 2
        /\ loading' = TRUE
        /\ error' = NULL
        /\ calls' = calls \o <<IssueCall("load", << >>, 0, FALSE, << >>, NULL),
                               IssueCall("load", << >>, 0, FALSE, << >>, NULL)>>
        /\ sent' = sent + 2 * SentBy(IssueCall("load", << >>, 0, FALSE, << >>, NULL))
        /\ overlapped' = TRUE
        /\ last' = Label("start", "load", NULL)
  /\ UNCHANGED <<todos, schedule, showSchedule, taskInput, priorityInput,
                 strictMode, accounts, store, nextId, bypassed, toggled, failed>>

\* fetchTodos after getTodos resolved: setTodos(data)
TodosAfterFetch(call) == OrEmpty(call.resp)

fetchTodosResolves(i) ==
  /\ i \in 1..Len(calls)
  /\ calls[i].kind = "load" /\ calls[i].pc = "resp"
  /\ calls[i].live
  /\ todos' = TodosAfterFetch(calls[i])
  /\ loading' = FALSE
  /\ calls' = RemoveAt(calls, i)
  /\ last' = Label("ok", "load", NULL)
  /\ UNCHANGED <<schedule, error, showSchedule, taskInput, priorityInput,
                 mounted, strictMode, accounts, store, nextId, issued, bypassed, overlapped, toggled, sent, failed>>

\* a handler that tested the input without trimming it
AddRejectedUntrimmed(input) == input = << >>

\* if (!taskInput.trim()) return;
AddRejected(input) == Trim(input) = << >>

\* handleAddTask up to its await (or its early return)
handleAddTask ==
  /\ mounted
  /\ bypassed' = (bypassed \/ loading)
  /\ IF AddRejected(taskInput)
     THEN /\ last' = Label("reject", "add", NULL)
          /\ UNCHANGED <<loading, error, calls, issued, sent, overlapped>>
     ELSE BeginCall("add", todos, 0, FALSE, taskInput, priorityInput)
  /\ UNCHANGED <<todos, schedule, showSchedule, taskInput, priorityInput,
                 mounted, strictMode, accounts, store, nextId, toggled, failed>>

\* a handler that appended to the list in the state when the call resolves
TodosAfterAddCurrent(call) == Append(todos, call.resp.data[1])

\* setTodos([...todos, newTodo]) with the todos of the render that dispatched
TodosAfterAdd(call) == Append(call.todos, call.resp.data[1])

handleAddTaskResolves(i) ==
  /\ i \in 1..Len(calls)
  /\ calls[i].kind = "add" /\ calls[i].pc = "resp"
  /\ calls[i].live
  /\ todos' = TodosAfterAdd(calls[i])
  /\ taskInput' = << >>
  /\ priorityInput' = "Medium"
  /\ loading' = FALSE
  /\ calls' = RemoveAt(calls, i)
  /\ last' = Label("ok", "add", NULL)
  /\ UNCHANGED <<schedule, error, showSchedule, mounted, strictMode, accounts, store, nextId,
                 issued, bypassed, overlapped, toggled, sent, failed>>

\* onClick={() => handleToggleTodo(todo.id, todo.completed)} up to its await
handleToggleTodo(k) ==
  /\ mounted
  /\ k \in 1..Len(todos)
  /\ bypassed' = (bypassed \/ loading)
  /\ BeginCall("toggle", todos, todos[k].id, todos[k].completed, << >>, NULL)
  /\ UNCHANGED <<todos, schedule, showSchedule, taskInput, priorityInput,
                 mounted, strictMode, accounts, store, nextId, toggled, failed>>

\* a handler that mapped over the list in the state when the call resolves
TodosAfterToggleCurrent(call) == MapReplace(todos, call.id, call.resp.data[1])

\* a handler that added the updated task to the list
TodosAfterToggleAppended(call) == Append(call.todos, call.resp.data[1])

\* setTodos(todos.map((todo) => (todo.id === id ? updatedTodo : todo)))
TodosAfterToggle(call) == MapReplace(call.todos, call.id, call.resp.data[1])

handleToggleTodoResolves(i) ==
  /\ i \in 1..Len(calls)
  /\ calls[i].kind = "toggle" /\ calls[i].pc = "resp"
  /\ calls[i].live
  /\ todos' = TodosAfterToggle(calls[i])
  /\ loading' = FALSE
  /\ calls' = RemoveAt(calls, i)
  /\ toggled' = [id |-> calls[i].id, given |-> calls[i].status]
  /\ last' = Label("ok", "toggle", NULL)
  /\ UNCHANGED <<schedule, error, showSchedule, taskInput, priorityInput,
                 mounted, strictMode, accounts, store, nextId, issued, bypassed, overlapped, sent, failed>>

\* onClick={() => handleDeleteTodo(todo.id)} up to its await
handleDeleteTodo(k) ==
  /\ mounted
  /\ k \in 1..Len(todos)
  /\ bypassed' = (bypassed \/ loading)
  /\ BeginCall("delete", todos, todos[k].id, FALSE, << >>, NULL)
  /\ UNCHANGED <<todos, schedule, showSchedule, taskInput, priorityInput,
                 mounted, strictMode, accounts, store, nextId, toggled, failed>>

\* a handler that removed the first entry of the list
TodosAfterDeleteFirst(call) == Tail(call.todos)

\* setTodos(todos.filter((todo) => todo.id !== id))
TodosAfterDelete(call) == FilterOut(call.todos, call.id)

handleDeleteTodoResolves(i) ==
  /\ i \in 1..Len(calls)
  /\ calls[i].kind = "delete" /\ calls[i].pc = "resp"
  /\ calls[i].live
  /\ todos' = TodosAfterDelete(calls[i])
  /\ loading' = FALSE
  /\ calls' = RemoveAt(calls, i)
  /\ last' = Label("ok", "delete", NULL)
  /\ UNCHANGED <<schedule, error, showSchedule, taskInput, priorityInput,
                 mounted, strictMode, accounts, store, nextId, issued, bypassed, overlapped, toggled, sent, failed>>

\* a handler without the empty-list check
GenerateNeverRejected(list) == FALSE

\* if (todos.length === 0)
GenerateRejected(list) == Len(list) = 0

\* handleGenerateSchedule up to its await (or its early return)
handleGenerateSchedule ==
  /\ mounted
  /\ bypassed' = (bypassed \/ loading)
  /\ IF GenerateRejected(todos)
     THEN /\ error' = MsgNoTasks
          /\ last' = Label("reject", "generate", NULL)
          /\ UNCHANGED <<loading, calls, issued, sent, overlapped>>
     ELSE BeginCall("generate", << >>, 0, FALSE, << >>, NULL)
  /\ UNCHANGED <<todos, schedule, showSchedule, taskInput, priorityInput,
                 mounted, strictMode, accounts, store, nextId, toggled, failed>>

\* a handler that kept the previous schedule in front of the new one
ScheduleAfterGenerateMerged(call) == schedule \o OrEmpty(call.resp)

\* setSchedule(generatedSchedule)
ScheduleAfterGenerate(call) == OrEmpty(call.resp)

handleGenerateScheduleResolves(i) ==
  /\ i \in 1..Len(calls)
  /\ calls[i].kind = "generate" /\ calls[i].pc = "resp"
  /\ calls[i].live
  /\ schedule' = ScheduleAfterGenerate(calls[i])
  /\ showSchedule' = TRUE
  /\ loading' = FALSE
  /\ calls' = RemoveAt(calls, i)
  /\ last' = Label("ok", "generate", NULL)
  /\ UNCHANGED <<todos, error, taskInput, priorityInput,
                 mounted, strictMode, accounts, store, nextId, issued, bypassed, overlapped, toggled, sent, failed>>

\* the account cache when TodoAssistant is rendered: App renders it only when
\* useIsAuthenticated() holds
SignedIn == {Accounts}

\* await instance.logoutPopup(...), with no try/catch: the popup opens and
\* the account cache is cleared, or logoutPopup rejects (the popup is
\* blocked) and the rejection is left unhandled, the cache as it was
handleLogout ==
  /\ mounted
  /\ accounts # << >>
  /\ \/ accounts' = << >>
     \/ accounts' = accounts
  /\ last' = Step
  /\ UNCHANGED <<ctrl, mounted, strictMode, calls, store, nextId, issued, bypassed, overlapped, toggled, sent, failed>>

\* the session has ended: App renders Login in place of TodoAssistant (and
\* mainWindowRedirectUri reloads the page). The component state is gone; the
\* requests it has in flight go on, their continuations set the state of an
\* unmounted component, which does nothing, and the lists they closed over
\* are not used again. What is recorded about the mounted controller
\* (toggled, bypassed, overlapped, failed) starts afresh
LoginRendered ==
  /\ mounted
  /\ accounts = << >>
  /\ mounted' = FALSE
  /\ todos' = << >>
  /\ schedule' = << >>
  /\ loading' = FALSE
  /\ error' = NULL
  /\ showSchedule' = FALSE
  /\ taskInput' = << >>
  /\ priorityInput' = "Medium"
  /\ calls' = [i \in 1..Len(calls) |->
                 [calls[i] EXCEPT !.live = FALSE, !.todos = << >>]]
  /\ toggled' = [id |-> 0, given |-> FALSE]
  /\ bypassed' = FALSE
  /\ overlapped' = FALSE
  /\ failed' = FALSE
  /\ last' = Step
  /\ UNCHANGED <<strictMode, accounts, store, nextId, issued, sent>>

\* Login.handleLogin: await instance.loginPopup(loginRequest) fills the
\* account cache, or rejects, which the catch logs
handleLogin ==
  /\ ~mounted
  /\ accounts = << >>
  /\ \/ accounts' \in SignedIn
     \/ accounts' = accounts
  /\ last' = Step
  /\ UNCHANGED <<ctrl, mounted, strictMode, calls, store, nextId, issued, bypassed, overlapped, toggled, sent, failed>>

\* a call of an unmounted TodoAssistant settles, by response or by failure:
\* the setters of its handler's continuation have no component to update
SettlesUnmounted(i) ==
  /\ i \in 1..Len(calls)
  /\ ~calls[i].live
  /\ calls[i].pc \in {"http", "resp", "aborted"}
  /\ calls' = RemoveAt(calls, i)
  /\ last' = Step
  /\ UNCHANGED <<ctrl, mounted, strictMode, accounts, store, nextId, issued, bypassed, overlapped, toggled,
                 sent, failed>>

\* ------------------------------------------------------ TodoAssistant: view
\* the schedule panel's condition: showSchedule && schedule.length > 0
PanelVisible == showSchedule /\ Len(schedule) > 0

\* onChange={(e) => setTaskInput(e.target.value)}, input disabled={loading}
setTaskInput(v) ==
  /\ mounted /\ ~loading
  /\ v # taskInput
  /\ taskInput' = v
  /\ last' = Step
  /\ UNCHANGED <<todos, schedule, loading, error, showSchedule, priorityInput,
                 mounted, strictMode, accounts, calls, store, nextId, issued, bypassed, overlapped, toggled, sent, failed>>

\* onChange={(e) => setPriorityInput(e.target.value)}, select disabled={loading}
setPriorityInput(v) ==
  /\ mounted /\ ~loading
  /\ v # priorityInput
  /\ priorityInput' = v
  /\ last' = Step
  /\ UNCHANGED <<todos, schedule, loading, error, showSchedule, taskInput,
                 mounted, strictMode, accounts, calls, store, nextId, issued, bypassed, overlapped, toggled, sent, failed>>

\* the "Hide Schedule" button: onClick={() => setShowSchedule(false)}
hideSchedule ==
  /\ PanelVisible
  /\ showSchedule' = FALSE
  /\ last' = Step
  /\ UNCHANGED <<todos, schedule, loading, error, taskInput, priorityInput,
                 mounted, strictMode, accounts, calls, store, nextId, issued, bypassed, overlapped, toggled, sent, failed>>

\* ------------------------------------------------------------------ system
\* the tasks the backend holds for the user when the page is opened
StoredAtStart ==
  {<< >>,
   <<[id |-> 1, task |-> <<98>>, priority |-> "High", completed |-> FALSE],
     [id |-> 2, task |-> <<99>>, priority |-> "Low", completed |-> TRUE]>>}

Init ==
  /\ todos = << >>
  /\ schedule = << >>
  /\ loading = FALSE
  /\ error = NULL
  /\ showSchedule = FALSE
  /\ taskInput = << >>
  /\ priorityInput = "Medium"
  /\ mounted = FALSE
  /\ strictMode \in BOOLEAN
  /\ accounts \in SignedIn
  /\ calls = << >>
  /\ store \in StoredAtStart
  /\ nextId = Len(store) + 1
  /\ issued = 0
  /\ toggled = [id |-> 0, given |-> FALSE]
  /\ bypassed = FALSE
  /\ overlapped = FALSE
  /\ sent = 0
  /\ failed = FALSE
  /\ last = Label("init", "none", NULL)

\* the add-task form: typing, submitting, and the continuation of the
\* submission
Form ==
  \/ \E v \in TaskInputs : setTaskInput(v)
  \/ handleAddTask
  \/ \E i \in 1..MaxOps : handleAddTaskResolves(i)

\* the other steps of the controller and the steps of the calls in flight
Controller ==
  \/ fetchTodos
  \/ \E k \in 1..Len(todos) : handleToggleTodo(k)
  \/ \E k \in 1..Len(todos) : handleDeleteTodo(k)
  \/ handleGenerateSchedule
  \/ hideSchedule
  \/ \E i \in 1..MaxOps : AcquireTokenSilentResolves(i)
  \/ \E i \in 1..MaxOps : BackendResponds(i)
  \/ \E i \in 1..MaxOps : CallFails(i)
  \/ \E i \in 1..MaxOps : fetchTodosResolves(i)
  \/ \E i \in 1..MaxOps : handleToggleTodoResolves(i)
  \/ \E i \in 1..MaxOps : handleDeleteTodoResolves(i)
  \/ \E i \in 1..MaxOps : handleGenerateScheduleResolves(i)

\* the controller and its form while the session lasts and the identity
\* library supplies the token
Next ==
  \/ Controller
  \/ Form
  \/ \E v \in PriorityInputs : setPriorityInput(v)

Spec == Init /\ [][Next]_vars

\* the controller with a session that can end and begin again and a silent
\* acquisition that can reject (the priority select left as it is)
NextApi ==
  \/ Controller
  \/ Form
  \/ handleLogout
  \/ LoginRendered
  \/ handleLogin
  \/ \E i \in 1..MaxOps : AcquireTokenSilentRejects(i)
  \/ \E i \in 1..MaxOps : SettlesUnmounted(i)

SpecApi == Init /\ [][NextApi]_vars

\* a call in flight moves on: its token acquisition settles, its request is
\* answered or fails, and the continuation of the handler that awaits it runs
Settling ==
  \E i \in 1..MaxOps :
    \/ AcquireTokenSilentResolves(i)
    \/ BackendResponds(i)
    \/ CallFails(i)
    \/ fetchTodosResolves(i)
    \/ handleAddTaskResolves(i)
    \/ handleToggleTodoResolves(i)
    \/ handleDeleteTodoResolves(i)
    \/ handleGenerateScheduleResolves(i)

\* the controller and its form with the priority select left as it is
NextSettling ==
  \/ Controller
  \/ Form

\* the controller when every call it has in flight settles: the event loop
\* runs the continuation of a settled promise
SpecSettling == Init /\ [][NextSettling]_vars /\ WF_vars(Settling)

\* ------------------------------------------------------------------ claims
\* the step is the resolving continuation of call i, a call of the given kind
Resolved(i, kind) ==
  /\ i \in 1..Len(calls)
  /\ calls[i].kind = kind
  /\ calls[i].pc = "resp"
  /\ calls' = RemoveAt(calls, i)
  /\ last'.ev = "ok" /\ last'.kind = kind

\* the step is the failing continuation of call i, a call of the given kind
Failed(i, kind) ==
  /\ i \in 1..Len(calls)
  /\ calls[i].kind = kind
  /\ calls[i].pc \in {"http", "aborted"}
  /\ calls' = RemoveAt(calls, i)
  /\ last'.ev = "fail" /\ last'.kind = kind

\* the step is a handler of the given kind issuing its API call
Started(kind) ==
  /\ last'.ev = "start" /\ last'.kind = kind
  /\ Len(calls') > Len(calls)
  /\ SubSeq(calls', 1, Len(calls)) = calls

\* the step is a handler of the given kind returning before any API call
Rejected(kind) == last'.ev = "reject" /\ last'.kind = kind

\* C1: when a task creation resolves, the task list is the list the handler
\* was invoked on (kept in the call) with the Task the backend returned
\* appended: one entry longer, the new last entry carrying the backend's id,
\* whatever other calls were in flight or resolved in between.
C1_CreateAppendsReturnedTask ==
  [][\A i \in 1..MaxOps :
       Resolved(i, "add") =>
         /\ Len(todos') = Len(calls[i].todos) + 1
         /\ SubSeq(todos', 1, Len(todos') - 1) = calls[i].todos
         /\ todos'[Len(todos')] = calls[i].resp.data[1]
         /\ todos'[Len(todos')].id \notin Ids(calls[i].todos)]_vars

\* a creation has resolved while another call, started before it resolved, is
\* still in flight, and the list holds the loaded tasks and the new one
C1_Witness ==
  /\ last.ev = "ok" /\ last.kind = "add"
  /\ calls # << >>
  /\ Len(todos) = 3
  /\ todos[3].id = 3

\* C2: when a toggle of task X resolves and the toggle that resolved before it
\* was a toggle of X too, the completed field of X in the list is the status
\* the first of the two was given (the value the list showed before it).
C2_DoubleToggleRestores ==
  [][\A i \in 1..MaxOps :
       (Resolved(i, "toggle") /\ toggled.id = calls[i].id) =>
         \A k \in 1..Len(todos') :
           todos'[k].id = calls[i].id => todos'[k].completed = toggled.given]_vars

\* C3: when a delete of task X resolves, the list is the list of the state it
\* resolves in without the entries whose id is X: the other entries stay, in
\* the same order.
C3_DeleteRemovesOnlyMatching ==
  [][\A i \in 1..MaxOps :
       Resolved(i, "delete") => todos' = FilterOut(todos, calls[i].id)]_vars

\* C4: handleGenerateSchedule on an empty list issues no call, leaves loading,
\* the schedule and the show-schedule flag as they are and sets the validation
\* message; a generate call is only ever issued on a non-empty list.
C4_GenerateOnEmptyListRefused ==
  [][/\ Rejected("generate") =>
          /\ todos = << >>
          /\ calls' = calls /\ issued' = issued
          /\ loading' = loading
          /\ error' = "Please add some tasks before generating a schedule."
          /\ schedule' = schedule /\ showSchedule' = showSchedule
     /\ Started("generate") => todos # << >>]_vars

\* generation was refused on an empty list while a call is in flight: the
\* message is set, the busy flag and the call are as they were
C4_Witness ==
  /\ last.ev = "reject" /\ last.kind = "generate"
  /\ todos = << >>
  /\ error = MsgNoTasks
  /\ loading /\ Len(calls) = 1 /\ issued = 1

\* C5: every request that is sent after its silent acquisition resolved (an
\* account is cached and the identity library supplied a token: a valid
\* session) carries the header Bearer <token>, the token being the one acquired
\* for the first cached account by that request's own interceptor run.
C5_SentWithBearerToken ==
  \A i \in 1..Len(calls) :
    (calls[i].pc \in {"http", "resp"} /\ calls[i].acq = "ok") =>
      /\ calls[i].header # NoHeader
      /\ calls[i].header = <<"Bearer", AccessToken(Accounts[1])>>

\* a generate-schedule request and a second request are out with the header
C5_Witness ==
  /\ Len(calls) = 2
  /\ calls[1].kind # calls[2].kind
  /\ \E i \in 1..2 : calls[i].kind = "generate"
  /\ \A i \in 1..2 : calls[i].pc \in {"http", "resp"} /\ calls[i].acq = "ok"
                     /\ calls[i].header = Bearer(AccessToken("alice"))

\* C6: a request whose token acquisition failed (no instance, no account, or
\* acquireTokenSilent rejected) is never rejected client-side: it is sent
\* without Authorization header, and every error a handler catches is one of
\* the transport or of the backend.
C6_FailedAcquisitionStillSent ==
  /\ \A i \in 1..Len(calls) :
       /\ calls[i].pc # "aborted"
       /\ calls[i].acq \in {"noinstance", "noaccount", "rejected"} =>
            (calls[i].pc \in {"http", "resp"} /\ calls[i].header = << >>)
  /\ last.ev = "fail" => last.err \in {"network", "auth", "backend"}

\* a request whose acquisition rejected and a request issued with no account
\* cached have both been sent, and the backend has served one of them
C6_Witness ==
  /\ Len(calls) = 2
  /\ {calls[1].acq, calls[2].acq} = {"rejected", "noaccount"}
  /\ \A i \in 1..2 : calls[i].pc \in {"http", "resp"} /\ calls[i].header = NoHeader
  /\ \E i \in 1..2 : calls[i].pc = "resp"

\* C7: when an update of task X resolves, the list is the list of the state it
\* resolves in with the entry of id X replaced by the returned Task: same
\* length, same order, every other entry as it was.
C7_UpdateReplacesInPlace ==
  [][\A i \in 1..MaxOps :
       Resolved(i, "toggle") =>
         /\ Len(todos') = Len(todos)
         /\ \A k \in 1..Len(todos) :
              todos'[k] = IF todos[k].id = calls[i].id
                          THEN calls[i].resp.data[1] ELSE todos[k]]_vars

\* the list the backend answered a generate-schedule call with
Returned(call) == IF call.resp.hasData THEN call.resp.data ELSE << >>

\* C8 as stated: when a generate-schedule call resolves, the schedule is the
\* returned list, the show-schedule flag is true and the panel is visible.
C8_GenerateShowsPanel ==
  [][\A i \in 1..MaxOps :
       Resolved(i, "generate") =>
         /\ schedule' = Returned(calls[i])
         /\ showSchedule'
         /\ Len(schedule') > 0]_vars

\* C8 amended: when a generate-schedule call resolves, the schedule is the
\* returned list (nothing of the previous one kept), the show-schedule flag is
\* true, and the panel is visible exactly when the returned list is not empty.
C8_GenerateReplacesSchedule ==
  [][\A i \in 1..MaxOps :
       Resolved(i, "generate") =>
         /\ schedule' = Returned(calls[i])
         /\ showSchedule'
         /\ (showSchedule' /\ Len(schedule') > 0) <=> (Returned(calls[i]) # << >>)]_vars

\* a second generation has resolved and its schedule is on the panel
C8_Witness ==
  /\ last.ev = "ok" /\ last.kind = "generate"
  /\ issued = 3 /\ calls = << >>
  /\ Len(schedule) = 2
  /\ schedule[1].time = "10:00" /\ schedule[2].time = "09:00"
  /\ PanelVisible

\* a character that counts as white space
Blank(c) ==
  \/ c \in {9, 10, 11, 12, 13, 32, 160, 5760, 65279}
  \/ c \in 8192..8202
  \/ c \in {8232, 8233, 8239, 8287, 12288}

\* C9: handleAddTask on an empty or whitespace-only input issues no call and
\* leaves the list, the busy flag, the message and the form as they are; an
\* add call is only ever issued for an input with a character that is not
\* white space (tab, LF, VT, FF, CR, space, NBSP, the Unicode space
\* separators, LS, PS, BOM).
C9_BlankAddIsNoOp ==
  [][/\ Rejected("add") =>
          /\ \A k \in 1..Len(taskInput) : Blank(taskInput[k])
          /\ ctrl' = ctrl
          /\ calls' = calls /\ issued' = issued
     /\ Started("add") => \E k \in 1..Len(taskInput) : ~Blank(taskInput[k])]_vars

\* an input of a space and a tab was submitted after a failed call: the message of
\* that failure is still shown
C9_Witness ==
  /\ last.ev = "reject" /\ last.kind = "add"
  /\ taskInput = <<32, 9>>
  /\ error # NULL
  /\ todos # << >>

\* C10: when a call of a handler fails, whatever the error, the handler's
\* catch sets the one message of its operation kind and the handler finishes
\* (loading false, the call gone).
C10_FailureSetsGenericMessage ==
  [][\A i \in 1..MaxOps :
       \A kind \in {"load", "add", "toggle", "delete", "generate"} :
         Failed(i, kind) =>
           /\ loading' = FALSE
           /\ error' = CASE kind = "load" -> "Failed to load tasks. Please try again."
                         [] kind = "add" -> "Failed to add task. Please try again."
                         [] kind = "toggle" -> "Failed to update task. Please try again."
                         [] kind = "delete" -> "Failed to delete task. Please try again."
                         [] kind = "generate" ->
                              "Failed to generate schedule. Please try again."]_vars

\* a delete has failed with an authorization error and shows the delete message
C10_Witness ==
  /\ last.ev = "fail" /\ last.kind = "delete" /\ last.err = "auth"
  /\ error = MsgDelete
  /\ ~loading

OpKinds == {"load", "add", "toggle", "delete", "generate"}

\* C11: a handler that issues its call sets loading and clears the error
\* message; the continuation of a call that resolved or failed sets loading
\* to false; with no call left in flight loading is false; and, calls in
\* flight settling, a loading controller always gets back to loading = false.
C11_BusyFlagCycle ==
  /\ [][\A kind \in OpKinds :
          Started(kind) => (loading' = TRUE /\ error' = NULL)]_vars
  /\ [][\A i \in 1..MaxOps : \A kind \in OpKinds :
          (Resolved(i, kind) \/ Failed(i, kind)) => loading' = FALSE]_vars
  /\ [](calls = << >> => loading = FALSE)
  /\ (loading = TRUE ~> loading = FALSE)

\* three calls were issued, two of them overlapping, the last one to settle
\* failed, and the controller is idle
C11_Witness ==
  /\ issued = MaxCalls /\ bypassed
  /\ calls = << >>
  /\ last.ev = "fail"
  /\ loading = FALSE

\* C12: every API call issued has sent one request once its token
\* acquisition is over and none before; and when a call fails, the error the
\* handler catches is the error the transport raised, no request is sent
\* again and no call is issued in its place: the one call is over.
C12_OneRequestNoRetry ==
  [][/\ sent' + Cardinality({i \in 1..Len(calls') : calls'[i].pc = "token"}) = issued'
     /\ \A i \in 1..MaxOps : \A kind \in OpKinds :
          Failed(i, kind) =>
            /\ last'.raw \in ErrorKinds
            /\ last'.err = last'.raw
            /\ sent' = sent
            /\ issued' = issued
            /\ Len(calls') = Len(calls) - 1]_vars

\* three calls were issued and each has sent its request; one of the two
\* started after the load has failed with a network error, which its handler
\* caught as it was, and the other is still in flight
C12_Witness ==
  /\ last.ev = "fail" /\ last.raw = "network" /\ last.err = "network"
  /\ issued = 3 /\ sent = 3
  /\ Len(calls) = 1

\* the list a task-list action writes when its call resolves, from the list of
\* the render that dispatched it and the response alone
Written(call) ==
  CASE call.kind = "load" ->
         IF call.resp.hasData THEN call.resp.data ELSE << >>
    [] call.kind = "add" -> call.todos \o <<call.resp.data[1]>>
    [] call.kind = "toggle" ->
         [k \in 1..Len(call.todos) |->
            IF call.todos[k].id = call.id THEN call.resp.data[1] ELSE call.todos[k]]
    [] call.kind = "delete" ->
         SelectSeq(call.todos, LAMBDA todo : todo.id # call.id)

\* C13: when a task-list action resolves, whichever of the calls in flight it
\* is, the task list becomes the list that action writes, whatever an action
\* that settled before it had written: the action that resolves last
\* determines the final list.
C13_LaterSettlingWins ==
  [][\A i \in 1..MaxOps : \A kind \in {"load", "add", "toggle", "delete"} :
       Resolved(i, kind) => todos' = Written(calls[i])]_vars

\* two toggles, of task 1 and of task 2, were in flight together; the toggle
\* of task 2 resolved last and its list shows task 1 as it was before, although
\* the backend holds the toggled task 1
C13_Witness ==
  /\ calls = << >>
  /\ last.ev = "ok" /\ last.kind = "toggle" /\ toggled.id = 2
  /\ Len(todos) = 2 /\ Len(store) = 2
  /\ todos[1].completed = FALSE /\ store[1].completed = TRUE
  /\ todos[2].completed = FALSE /\ store[2].completed = FALSE

\* C14: a call whose request has been sent or answered has its token
\* acquisition attempt behind it, and a request is sent only in the step that
\* ends that attempt; the task list of a mounted controller changes only in
\* the continuation of a resolved task-list call, its schedule only in the
\* continuation of a resolved generate call, and a failure message is set
\* only in the continuation of a failed call.
C14_ProgramOrder ==
  [][/\ \A i \in 1..Len(calls') :
          /\ calls'[i].pc \in {"http", "resp"} => calls'[i].acq # "pending"
          /\ calls'[i].pc = "token" =>
                (calls'[i].acq = "pending" /\ calls'[i].header = << >>)
     /\ sent' # sent =>
          \/ \E kind \in OpKinds : Started(kind) /\ calls'[Len(calls')].acq # "pending"
          \/ \E i \in 1..Len(calls) :
               /\ calls[i].pc = "token" /\ calls[i].acq = "pending"
               /\ Len(calls') = Len(calls) /\ calls'[i].acq # "pending"
     /\ (mounted' /\ todos' # todos) =>
          \E i \in 1..MaxOps : \E kind \in {"load", "add", "toggle", "delete"} :
            Resolved(i, kind)
     /\ (mounted' /\ schedule' # schedule) =>
          \E i \in 1..MaxOps : Resolved(i, "generate")
     /\ error' \in {MsgLoad, MsgAdd, MsgUpdate, MsgDelete, MsgGenerate} /\ error' # error =>
          \E i \in 1..MaxOps : \E kind \in OpKinds : Failed(i, kind)]_vars

\* the backend has stored and answered an update that was sent with the
\* token acquired for it, and the task list does not show the new status yet
C14_Witness ==
  /\ mounted
  /\ \E i \in 1..Len(calls) :
       /\ calls[i].kind = "toggle" /\ calls[i].pc = "resp" /\ calls[i].live
       /\ calls[i].acq = "ok" /\ calls[i].header # << >>
       /\ \E k \in 1..Len(todos) :
            /\ todos[k].id = calls[i].id
            /\ todos[k].completed = calls[i].status
            /\ calls[i].resp.data[1].completed = ~calls[i].status
  /\ sent = issued

\* C15: as long as no intent was dispatched while loading was true, at most
\* one API call is in flight (the mount having started one load), and loading
\* is true exactly when one is.
C15_OneCallInFlight ==
  ~bypassed => (Len(calls) <= 1 /\ (loading = TRUE <=> Len(calls) = 1))

\* C16: when a call fails, the task list is the list its operation started
\* on (for a load on mount, the empty initial list), after a failed add the
\* form fields hold what they held when the add started, and after a failed
\* generate the schedule and the show-schedule flag are as they were.
C16_FailureRestoresStart ==
  [][\A i \in 1..MaxOps :
       /\ Failed(i, "load") => todos' = << >>
       /\ \A kind \in {"add", "toggle", "delete"} :
            Failed(i, kind) => todos' = calls[i].todos
       /\ Failed(i, "add") =>
            (taskInput' = calls[i].task /\ priorityInput' = calls[i].priority)
       /\ Failed(i, "generate") =>
            (schedule' = schedule /\ showSchedule' = showSchedule)]_vars

\* C17: when no call was started while another was in flight and no call
\* has failed, then with the load done and no call in flight the task list
\* holds the tasks of the backend's store, entry by entry: the same ids with
\* the same task, priority and completed values.
C17_ListMatchesStore ==
  (~overlapped /\ ~failed /\ issued >= 1 /\ calls = << >>) =>
     /\ Len(todos) = Len(store)
     /\ \A k \in 1..Len(store) :
          /\ todos[k].id = store[k].id
          /\ todos[k].completed = store[k].completed
          /\ todos[k].task = store[k].task
          /\ todos[k].priority = store[k].priority

\* a load, an add and a delete have run one after the other without failure;
\* list and store hold two tasks, the created one among them
C17_Witness ==
  /\ ~overlapped /\ ~failed
  /\ issued = 3 /\ calls = << >>
  /\ last.ev = "ok" /\ last.kind = "delete"
  /\ Len(todos) = 2 /\ 3 \in Ids(todos)
  /\ Ids(todos) = Ids(store)

\* C18: no two entries of the task list have the same id.
C18_UniqueIds ==
  \A j, k \in 1..Len(todos) : todos[j].id = todos[k].id => j = k

\* a toggle and an add were in flight together and the add resolved last:
\* the list holds three tasks with three ids and is not the backend's store
C18_Witness ==
  /\ bypassed
  /\ calls = << >>
  /\ last.ev = "ok" /\ last.kind = "add"
  /\ Cardinality(Ids(todos)) = 3
  /\ Ids(todos) = Ids(store)
  /\ todos # store
====
